---- MODULE Spec2Model ----
(***************************************************************************)
(* Model of the projection and amortization engine of                      *)
(* backend/services/simulator.py: simulate_debt_payoff, the debt part of   *)
(* project_profile, and run_projection.                                    *)
(*                                                                         *)
(* Money is a Python float in the source.  Here it is a fixed-point        *)
(* integer counted in units of 1/Unit of a dollar, every product/quotient  *)
(* rounded to the nearest unit (a float rounds to the nearest double).     *)
(* Values returned through round(x, 2) are integers counted in cents.      *)
(***************************************************************************)
EXTENDS Integers, Sequences, FiniteSets, TLC

\* ------------------------------------------------------------------ bounds
MaxDebts == 2          \* longest debt list drawn in Init

\* ------------------------------------------------------- program constants
max_months == 600      \* simulator.py:123
Inf == 2147483647      \* float('inf'), simulator.py:141

\* --------------------------------------------------------------- arithmetic
Unit == 100 * 100                  \* units per dollar
Cent == Unit \div 100              \* units per cent
Epsilon == Unit \div 100           \* the literal 0.01 of the loop test

\* x * a / b rounded to the nearest integer (b > 0, a >= 0), computed without
\* forming x * a
MulDivRound(x, a, b) ==
    (x \div b) * a + ((x % b) * a + b \div 2) \div b

Min(a, b) == IF a <= b THEN a ELSE b
Max(a, b) == IF a >= b THEN a ELSE b

RECURSIVE SumSeq(_)
SumSeq(s) == IF s = << >> THEN 0 ELSE Head(s) + SumSeq(Tail(s))

\* round(x, 2): units -> cents, ties to even
Round2(x) ==
    LET q == x \div Cent
        r == x % Cent
    IN  IF 2 * r > Cent \/ (2 * r = Cent /\ q % 2 = 1) THEN q + 1 ELSE q

\* ------------------------------------------------------------------ inputs
\* a Debt of models.py as the dict project_profile builds from it (name left
\* out: it is copied through and never read)
Dollars(n) == n * Unit

Debt(b, r, m) == [balance |-> b, rate |-> r, min_payment |-> m]

DebtChoices ==
    { Debt(Dollars(1000), 20, Dollars(50)),
      Debt(Dollars(1000), 12, Dollars(10)),
      Debt(Dollars(500), 0, Dollars(10)),
      Debt(Dollars(500), 12, Dollars(100)),
      Debt(0, 6, Dollars(50)),
      Debt(Cent \div 2, 20, Dollars(50)) }

RECURSIVE SeqsUpTo(_, _)
SeqsUpTo(S, n) ==
    IF n = 0 THEN { << >> }
    ELSE LET shorter == SeqsUpTo(S, n - 1)
         IN  shorter \cup { Append(s, x) : s \in shorter, x \in S }

DebtLists == SeqsUpTo(DebtChoices, MaxDebts)

\* monthly_income - monthly_expenses of the successive profiles, ascending
Surpluses == << Dollars(0 - 500), Dollars(100), Dollars(500) >>

Strategies == << "avalanche", "snowball" >>

VARIABLES
    debt_data,        \* project_profile: the caller's debt list
    call,             \* which project_profile invocation (index in Surpluses)
    strategy,         \* simulate_debt_payoff: strategy argument
    extra_monthly,    \* simulate_debt_payoff: extra_monthly argument
    active,           \* simulate_debt_payoff: the working copy
    total_interest,
    total_paid,
    months,
    remaining_extra,
    order,
    pc,               \* position in project_profile / simulate_debt_payoff
    result,           \* DebtPayoffResult of the call that last returned
    avalanche,        \* project_profile: result of the avalanche call
    snowball,         \* project_profile: result of the snowball call
    payoffs           \* "debt_payoff" entries returned by project_profile so far

debtVars == << debt_data, call, strategy, extra_monthly, active, total_interest,
               total_paid, months, remaining_extra, order, pc, result,
               avalanche, snowball, payoffs >>

VARIABLES
    current_balance,       \* run_projection: arguments
    monthly_contribution,
    years,
    risk,
    target,
    n_simulations,
    month,                 \* run_projection: m, the months simulated so far
    all_paths,             \* column m of all_paths, one balance per path
    yearly_values,         \* the columns of all_paths at m = 0, 12, 24, ...
    ppc,                   \* position in run_projection
    projection             \* the ProjectionResult returned

projVars == << current_balance, monthly_contribution, years, risk, target,
               n_simulations, month, all_paths, yearly_values, ppc, projection >>

VARIABLES
    accounts,              \* project_profile: profile.accounts
    goals,                 \* project_profile: profile.goals
    surplus,               \* project_profile: monthly_income - monthly_expenses
    income_growth_rate,    \* project_profile: profile.income_growth_rate
    goal_idx,              \* project_profile: position of the loop over the goals
    portfolio_call,        \* arguments of the portfolio call of run_projection
    goal_calls,            \* arguments of each goal's call of run_projection
    qpc                    \* position in project_profile

profVars == << accounts, goals, surplus, income_growth_rate, goal_idx,
               portfolio_call, goal_calls, qpc >>

vars == << debtVars, projVars, profVars >>

None == [none |-> TRUE]

\* --------------------------------------------------- simulate_debt_payoff
\* lines 108-118
DeepCopy(debts) ==
    [i \in 1..Len(debts) |->
        [balance |-> debts[i].balance,
         rate |-> debts[i].rate,
         min_payment |-> debts[i].min_payment,
         interest_paid |-> 0,
         months |-> 0,
         original_balance |-> debts[i].balance]]

\* the working copy sharing its records with the caller's list
CallerDebts_Aliased(debts, act) ==
    [i \in DOMAIN debts |-> [debts[i] EXCEPT !.balance = act[i].balance]]

\* lines 108-118: every record of active is a new dict, so a write to active
\* reaches no record of the caller's list; what that list holds after a write
CallerDebts(debts, act) == debts

\* line 125, the any(...) part
AnyOwing(act) == \E i \in DOMAIN act : act[i].balance > Epsilon

\* the cap compared with <= : one month too many
LoopCondition_OffByOne(act, m) == AnyOwing(act) /\ m <= max_months

\* line 125, the whole condition of the while
LoopCondition(act, m) == AnyOwing(act) /\ m < max_months

\* interest charged on the balance the debt started with
MonthlyInterest_OnOriginal(d) == MulDivRound(d.original_balance, d.rate, 100 * 12)

\* line 132
MonthlyInterest(d) == MulDivRound(d.balance, d.rate, 100 * 12)

\* lines 130-134
AccrueInterest(act) ==
    [i \in DOMAIN act |->
        IF act[i].balance > 0
        THEN [act[i] EXCEPT !.balance = @ + MonthlyInterest(act[i]),
                            !.interest_paid = @ + MonthlyInterest(act[i])]
        ELSE act[i]]

\* line 135, summed over the loop
InterestAccrued(act) ==
    SumSeq([i \in DOMAIN act |->
        IF act[i].balance > 0 THEN MonthlyInterest(act[i]) ELSE 0])

\* sorted(range(len(active)), key=...): stable, ascending
SortedBy(key) ==
    LET n == Len(key)
        Rank(i) == Cardinality({ j \in 1..n :
                       key[j] < key[i] \/ (key[j] = key[i] /\ j < i) }) + 1
    IN  [p \in 1..n |-> CHOOSE i \in 1..n : Rank(i) = p]

\* the key without its minus sign: lowest rate first
AvalancheKey_Ascending(d) == d.rate

\* line 139
AvalancheKey(d) == 0 - d.rate

\* line 141
SnowballKey(d) == IF d.balance > 0 THEN d.balance ELSE Inf

\* the snowball order built over range(len(active) - 1)
PriorityOrder_DropLast(strat, act) ==
    IF strat = "avalanche"
    THEN SortedBy([i \in DOMAIN act |-> AvalancheKey(act[i])])
    ELSE SortedBy([i \in 1..(Len(act) - 1) |-> SnowballKey(act[i])])

\* both strategies ordered by the snowball key
PriorityOrder_BothByBalance(strat, act) ==
    SortedBy([i \in DOMAIN act |-> SnowballKey(act[i])])

\* lines 138-141
PriorityOrder(strat, act) ==
    IF strat = "avalanche"
    THEN SortedBy([i \in DOMAIN act |-> AvalancheKey(act[i])])
    ELSE SortedBy([i \in DOMAIN act |-> SnowballKey(act[i])])

\* the minimum paid in full whatever is owed
MinimumPayment_Uncapped(d) == d.min_payment

\* line 147
MinimumPayment(d) == Min(d.min_payment, d.balance)

\* lines 144-149
PayMinimums(act) ==
    [i \in DOMAIN act |->
        IF act[i].balance > 0
        THEN [act[i] EXCEPT !.balance = @ - MinimumPayment(act[i])]
        ELSE act[i]]

\* the minimums counted in full although a payment is capped at the balance
MinimumsPaid_Uncapped(act) ==
    SumSeq([i \in DOMAIN act |->
        IF act[i].balance > 0 THEN act[i].min_payment ELSE 0])

\* lines 144-149, what the payments add to total_paid
MinimumsPaid(act) ==
    SumSeq([i \in DOMAIN act |->
        IF act[i].balance > 0 THEN MinimumPayment(act[i]) ELSE 0])

\* line 155
ExtraPayment(remaining, d) == Min(remaining, d.balance)

\* lines 152-158: the loop over order from position k on; st carries the
\* working copy, the extra still unspent and the amount paid
RECURSIVE ExtraLoop(_, _, _)
ExtraLoop(st, ord, k) ==
    IF k > Len(ord) THEN st
    ELSE LET i == ord[k]
             d == st.act[i]
         IN  IF d.balance > 0 /\ st.remaining > 0
             THEN LET payment == ExtraPayment(st.remaining, d)
                  IN  ExtraLoop(
                        [act |-> [st.act EXCEPT ![i].balance = @ - payment],
                         remaining |-> st.remaining - payment,
                         paid |-> st.paid + payment],
                        ord, k + 1)
             ELSE ExtraLoop(st, ord, k + 1)

ApplyExtra(act, ord, remaining) ==
    ExtraLoop([act |-> act, remaining |-> remaining, paid |-> 0], ord, 1)

\* the month recorded for a debt with nothing left to pay as well
RecordMonths_Always(act, m) ==
    [i \in DOMAIN act |->
        IF act[i].balance >= 0 THEN [act[i] EXCEPT !.months = m] ELSE act[i]]

\* lines 160-162
RecordMonths(act, m) ==
    [i \in DOMAIN act |->
        IF act[i].balance > 0 THEN [act[i] EXCEPT !.months = m] ELSE act[i]]

\* lines 164-175
PayoffResult(strat, act, ti, m, tp) ==
    [strategy |-> strat,
     debts |-> [i \in DOMAIN act |->
                  [original_balance |-> Round2(act[i].original_balance),
                   interest_paid |-> Round2(act[i].interest_paid),
                   months_to_payoff |-> act[i].months]],
     total_interest |-> Round2(ti),
     months_to_free |-> m,
     total_paid |-> Round2(tp)]

\* the strategy of the empty result fixed to the default
EmptyResult_Default(strat) ==
    [strategy |-> "avalanche", debts |-> << >>, total_interest |-> 0,
     months_to_free |-> 0, total_paid |-> 0]

\* line 105
EmptyResult(strat) ==
    [strategy |-> strat, debts |-> << >>, total_interest |-> 0,
     months_to_free |-> 0, total_paid |-> 0]

\* ------------------------------------------------------------------ state
DebtInit ==
    /\ debt_data \in DebtLists
    /\ call = 1
    /\ strategy = "avalanche"
    /\ extra_monthly = 0
    /\ active = << >>
    /\ total_interest = 0
    /\ total_paid = 0
    /\ months = 0
    /\ remaining_extra = 0
    /\ order = << >>
    /\ pc = "profile"
    /\ result = None
    /\ avalanche = None
    /\ snowball = None
    /\ payoffs = << >>

\* run_projection not called
ProjIdle ==
    /\ current_balance = 0
    /\ monthly_contribution = 0
    /\ years = 0
    /\ risk = "moderate"
    /\ target = 0
    /\ n_simulations = 0
    /\ month = 0
    /\ all_paths = << >>
    /\ yearly_values = << >>
    /\ ppc = "idle"
    /\ projection = None

\* the portfolio and goal part of project_profile not running
ProfIdle ==
    /\ accounts = << >>
    /\ goals = << >>
    /\ surplus = 0
    /\ income_growth_rate = 0
    /\ goal_idx = 1
    /\ portfolio_call = None
    /\ goal_calls = << >>
    /\ qpc = "idle"

Init == DebtInit /\ ProjIdle /\ ProfIdle

\* project_profile, line 182 and the arguments of lines 219-220:
\* the extra taken from the size of the surplus, a shortfall included
ExtraFromSurplus_Abs(sur) ==
    MulDivRound(IF sur < 0 THEN 0 - sur ELSE sur, 3, 10)

\* extra_monthly = max(0, surplus * 0.3)
ExtraFromSurplus(sur) == Max(0, MulDivRound(sur, 3, 10))

\* project_profile lines 214-219: build debt_data, call with "avalanche"
ProfileCallAvalanche ==
    /\ UNCHANGED << projVars, profVars >>
    /\ pc = "profile"
    /\ call <= Len(Surpluses)
    /\ strategy' = "avalanche"
    /\ extra_monthly' = ExtraFromSurplus(Surpluses[call])
    /\ avalanche' = None
    /\ snowball' = None
    /\ pc' = "entry"
    /\ UNCHANGED << debt_data, call, active, total_interest, total_paid, months,
                    remaining_extra, order, result, payoffs >>

\* simulate_debt_payoff lines 104-105: no debts, return at once
EntryEmpty ==
    /\ UNCHANGED << projVars, profVars >>
    /\ pc = "entry"
    /\ debt_data = << >>
    /\ result' = EmptyResult(strategy)
    /\ pc' = "return"
    /\ UNCHANGED << debt_data, call, strategy, extra_monthly, active,
                    total_interest, total_paid, months, remaining_extra, order,
                    avalanche, snowball, payoffs >>

\* simulate_debt_payoff lines 107-123
EntryCopy ==
    /\ UNCHANGED << projVars, profVars >>
    /\ pc = "entry"
    /\ debt_data # << >>
    /\ active' = DeepCopy(debt_data)
    /\ total_interest' = 0
    /\ total_paid' = 0
    /\ months' = 0
    /\ remaining_extra' = 0
    /\ order' = << >>
    /\ result' = None
    /\ pc' = "while"
    /\ UNCHANGED << debt_data, call, strategy, extra_monthly, avalanche,
                    snowball, payoffs >>

\* line 125 true, lines 126-127
LoopEnter ==
    /\ UNCHANGED << projVars, profVars >>
    /\ pc = "while"
    /\ LoopCondition(active, months)
    /\ months' = months + 1
    /\ remaining_extra' = extra_monthly
    /\ pc' = "interest"
    /\ UNCHANGED << debt_data, call, strategy, extra_monthly, active,
                    total_interest, total_paid, order, result, avalanche,
                    snowball, payoffs >>

\* line 125 false, lines 164-175
LoopExit ==
    /\ UNCHANGED << projVars, profVars >>
    /\ pc = "while"
    /\ ~LoopCondition(active, months)
    /\ result' = PayoffResult(strategy, active, total_interest, months, total_paid)
    /\ pc' = "return"
    /\ UNCHANGED << debt_data, call, strategy, extra_monthly, active,
                    total_interest, total_paid, months, remaining_extra, order,
                    avalanche, snowball, payoffs >>

\* lines 129-135
StepInterest ==
    /\ UNCHANGED << projVars, profVars >>
    /\ pc = "interest"
    /\ active' = AccrueInterest(active)
    /\ total_interest' = total_interest + InterestAccrued(active)
    /\ debt_data' = CallerDebts(debt_data, active')
    /\ pc' = "minimums"
    /\ UNCHANGED << call, strategy, extra_monthly, total_paid, months,
                    remaining_extra, order, result, avalanche, snowball, payoffs >>

\* lines 137-149: the order is fixed on the balances after interest, then
\* every minimum is paid
StepMinimums ==
    /\ UNCHANGED << projVars, profVars >>
    /\ pc = "minimums"
    /\ order' = PriorityOrder(strategy, active)
    /\ active' = PayMinimums(active)
    /\ total_paid' = total_paid + MinimumsPaid(active)
    /\ debt_data' = CallerDebts(debt_data, active')
    /\ pc' = "extra"
    /\ UNCHANGED << call, strategy, extra_monthly, total_interest,
                    months, remaining_extra, result, avalanche, snowball, payoffs >>

\* lines 151-158
StepExtra ==
    /\ UNCHANGED << projVars, profVars >>
    /\ pc = "extra"
    /\ LET st == ApplyExtra(active, order, remaining_extra)
       IN  /\ active' = st.act
           /\ remaining_extra' = st.remaining
           /\ total_paid' = total_paid + st.paid
    /\ debt_data' = CallerDebts(debt_data, active')
    /\ pc' = "record"
    /\ UNCHANGED << call, strategy, extra_monthly, total_interest,
                    months, order, result, avalanche, snowball, payoffs >>

\* lines 160-162
StepRecord ==
    /\ UNCHANGED << projVars, profVars >>
    /\ pc = "record"
    /\ active' = RecordMonths(active, months)
    /\ debt_data' = CallerDebts(debt_data, active')
    /\ pc' = "while"
    /\ UNCHANGED << call, strategy, extra_monthly, total_interest,
                    total_paid, months, remaining_extra, order, result,
                    avalanche, snowball, payoffs >>

\* project_profile lines 219-220: the avalanche call returned, call with
\* "snowball" and the same extra_monthly
ProfileCallSnowball ==
    /\ UNCHANGED << projVars, profVars >>
    /\ pc = "return"
    /\ strategy = "avalanche"
    /\ avalanche' = result
    /\ strategy' = "snowball"
    /\ pc' = "entry"
    /\ UNCHANGED << debt_data, call, extra_monthly, active, total_interest,
                    total_paid, months, remaining_extra, order, result, snowball,
                    payoffs >>

\* line 228
SavingsVsSnowball(av, sn) == sn.total_interest - av.total_interest

\* project_profile lines 220-229: the snowball call returned, assemble
ProfileReturn ==
    /\ UNCHANGED << projVars, profVars >>
    /\ pc = "return"
    /\ strategy = "snowball"
    /\ snowball' = result
    /\ payoffs' = Append(payoffs,
          [extra_monthly |-> extra_monthly,
           avalanche |-> avalanche,
           snowball |-> result,
           savings_vs_snowball |-> SavingsVsSnowball(avalanche, result)])
    /\ call' = call + 1
    /\ pc' = IF call < Len(Surpluses) THEN "profile" ELSE "done"
    /\ UNCHANGED << debt_data, strategy, extra_monthly, active, total_interest,
                    total_paid, months, remaining_extra, order, result, avalanche >>

Next ==
    \/ ProfileCallAvalanche
    \/ EntryEmpty
    \/ EntryCopy
    \/ LoopEnter
    \/ LoopExit
    \/ StepInterest
    \/ StepMinimums
    \/ StepExtra
    \/ StepRecord
    \/ ProfileCallSnowball
    \/ ProfileReturn

Spec == Init /\ [][Next]_vars

\* the calls run to completion: nothing in project_profile or
\* simulate_debt_payoff waits on anything
FairSpec == Spec /\ WF_vars(Next)

\* ---------------------------------------------------------- run_projection
MaxSims == 3           \* largest simulation count drawn in ProjInit

\* lines 11-15, in basis points
RETURN_PROFILES ==
    [conservative |-> [mean |-> 500, std |-> 700],
     moderate |-> [mean |-> 700, std |-> 1200],
     aggressive |-> [mean |-> 900, std |-> 1700]]

\* line 62: np.random.normal has unbounded support; a draw is any of these
\* monthly returns, in percent
ReturnDraws == { 0 - 50, 100 }

BalanceChoices == { 0 - 1024 * Cent, 0, 1024 * Cent }
ContributionChoices == { 0, Dollars(1) }
YearChoices == { 0, 1 }
RiskChoices == { "moderate", "speculative" }
TargetChoices == { 0, 1024 * Cent, Dollars(100) }

\* line 57
NMonths(y) == y * 12

\* line 65, contribution_growth = 0.03
AdjContribution(c, year_idx) ==
    LET RECURSIVE Grow(_, _)
        Grow(x, k) == IF k = 0 THEN x ELSE Grow(MulDivRound(x, 103, 100), k - 1)
    IN  Grow(c, year_idx)

\* line 66, one path
GrowPath(balance, ret, adj) == balance + MulDivRound(balance, ret, 100) + adj

\* lines 55, 69-70 at a yearly index: the factor (1 + monthly_inflation) ** (12 * y)
\* is 1.02 ** y, inflation = 0.02
RECURSIVE Deflate(_, _)
Deflate(x, y) == IF y = 0 THEN x ELSE Deflate(MulDivRound(x, 100, 102), y - 1)

\* lines 70, 73-74: the real values of yearly column y (1-based: year y - 1)
RealColumn(cols, y) == [i \in DOMAIN cols[y] |-> Deflate(cols[y][i], y - 1)]

Sorted(col) == LET ord == SortedBy(col) IN [p \in DOMAIN col |-> col[ord[p]]]

\* the percentile read at a position that is not sorted into place
Percentile_Unsorted(col, q) ==
    LET n == Len(col)
        pos == (n - 1) * q
        lo == pos \div 100 + 1
        hi == Min(lo + 1, n)
        g == pos % 100
        diff == col[hi] - col[lo]
    IN  IF 2 * g < 100
        THEN col[lo] + MulDivRound(diff, g, 100)
        ELSE col[hi] - MulDivRound(diff, 100 - g, 100)

\* lines 77-80: np.percentile(col, q), linear interpolation between the two
\* order statistics around (n - 1) * q / 100
Percentile(col, q) ==
    LET n == Len(col)
        s == Sorted(col)
        pos == (n - 1) * q
        lo == pos \div 100 + 1
        hi == Min(lo + 1, n)
        g == pos % 100
        diff == s[hi] - s[lo]
    IN  IF 2 * g < 100
        THEN s[lo] + MulDivRound(diff, g, 100)
        ELSE s[hi] - MulDivRound(diff, 100 - g, 100)

\* lines 76, 93: np.median(col), the mean of the middle one or two
Median(col) ==
    LET n == Len(col)
        s == Sorted(col)
    IN  IF n % 2 = 1 THEN s[(n + 1) \div 2]
        ELSE MulDivRound(s[n \div 2] + s[n \div 2 + 1], 1, 2)

\* the target compared with > instead of >=
SuccessRate_Strict(final, tgt) ==
    IF tgt > 0
    THEN MulDivRound(Cardinality({ i \in DOMAIN final : final[i] > tgt }),
                     1000, Len(final))
    ELSE 1000

\* line 83 and round(success_rate, 1) of line 92, in tenths of a percent
SuccessRate(final, tgt) ==
    IF tgt > 0
    THEN MulDivRound(Cardinality({ i \in DOMAIN final : final[i] >= tgt }),
                     1000, Len(final))
    ELSE 1000

\* lines 68-95
Summary(cols, y, tgt) ==
    LET final == RealColumn(cols, y + 1)
    IN  [years |-> [k \in 1..(y + 1) |-> k - 1],
         median |-> [k \in 1..(y + 1) |-> Round2(Median(RealColumn(cols, k)))],
         p10 |-> [k \in 1..(y + 1) |-> Round2(Percentile(RealColumn(cols, k), 10))],
         p25 |-> [k \in 1..(y + 1) |-> Round2(Percentile(RealColumn(cols, k), 25))],
         p75 |-> [k \in 1..(y + 1) |-> Round2(Percentile(RealColumn(cols, k), 75))],
         p90 |-> [k \in 1..(y + 1) |-> Round2(Percentile(RealColumn(cols, k), 90))],
         success_rate |-> SuccessRate(final, tgt),
         median_final |-> Round2(Median(final)),
         target |-> tgt,
         nan |-> FALSE]

\* lines 76-95 with no path at all: every statistic of an empty column is nan
NanSummary(y, tgt) ==
    [years |-> [k \in 1..(y + 1) |-> k - 1],
     target |-> tgt,
     nan |-> TRUE]

\* simulate_debt_payoff and project_profile not called
DebtIdle ==
    /\ debt_data = << >>
    /\ call = 1
    /\ strategy = "avalanche"
    /\ extra_monthly = 0
    /\ active = << >>
    /\ total_interest = 0
    /\ total_paid = 0
    /\ months = 0
    /\ remaining_extra = 0
    /\ order = << >>
    /\ pc = "idle"
    /\ result = None
    /\ avalanche = None
    /\ snowball = None
    /\ payoffs = << >>

\* the arguments of one call of run_projection (lines 41-50)
ProjInit ==
    /\ DebtIdle
    /\ ProfIdle
    /\ current_balance \in BalanceChoices
    /\ monthly_contribution \in ContributionChoices
    /\ years \in YearChoices
    /\ risk \in RiskChoices
    /\ target \in TargetChoices
    /\ n_simulations \in (0 - 1)..MaxSims
    /\ monthly_contribution # 0 => n_simulations <= 1
    /\ month = 0
    /\ all_paths = << >>
    /\ yearly_values = << >>
    /\ ppc = "start"
    /\ projection = None

\* line 52: RETURN_PROFILES[risk] raises KeyError
StartKeyError ==
    /\ UNCHANGED << debtVars, profVars >>
    /\ ppc = "start"
    /\ risk \notin DOMAIN RETURN_PROFILES
    /\ ppc' = "error"
    /\ UNCHANGED << current_balance, monthly_contribution, years, risk, target,
                    n_simulations, month, all_paths, yearly_values, projection >>

\* line 58: np.zeros with a negative dimension raises ValueError
StartBadShape ==
    /\ UNCHANGED << debtVars, profVars >>
    /\ ppc = "start"
    /\ risk \in DOMAIN RETURN_PROFILES
    /\ n_simulations < 0
    /\ ppc' = "error"
    /\ UNCHANGED << current_balance, monthly_contribution, years, risk, target,
                    n_simulations, month, all_paths, yearly_values, projection >>

\* lines 52-59
Start ==
    /\ UNCHANGED << debtVars, profVars >>
    /\ ppc = "start"
    /\ risk \in DOMAIN RETURN_PROFILES
    /\ n_simulations >= 0
    /\ all_paths' = [i \in 1..n_simulations |-> current_balance]
    /\ yearly_values' = << [i \in 1..n_simulations |-> current_balance] >>
    /\ month' = 0
    /\ ppc' = "simulate"
    /\ UNCHANGED << current_balance, monthly_contribution, years, risk, target,
                    n_simulations, projection >>

\* lines 61-66, one month: every path draws its return
SimulateMonth ==
    /\ UNCHANGED << debtVars, profVars >>
    /\ ppc = "simulate"
    /\ month < NMonths(years)
    /\ \E returns \in [1..n_simulations -> ReturnDraws] :
          LET adj == AdjContribution(monthly_contribution, month \div 12)
              col == [i \in 1..n_simulations |->
                         GrowPath(all_paths[i], returns[i], adj)]
          IN  /\ all_paths' = col
              /\ yearly_values' = IF (month + 1) % 12 = 0
                                  THEN Append(yearly_values, col)
                                  ELSE yearly_values
    /\ month' = month + 1
    /\ UNCHANGED << current_balance, monthly_contribution, years, risk, target,
                    n_simulations, ppc, projection >>

\* lines 68-95
Summarize ==
    /\ UNCHANGED << debtVars, profVars >>
    /\ ppc = "simulate"
    /\ month = NMonths(years)
    /\ n_simulations >= 1
    /\ projection' = Summary(yearly_values, years, target)
    /\ ppc' = "done"
    /\ UNCHANGED << current_balance, monthly_contribution, years, risk, target,
                    n_simulations, month, all_paths, yearly_values >>

\* lines 76-95 with n_simulations = 0: numpy either answers nan for the
\* statistics of an empty column (with a warning) ...
SummarizeEmptyNan ==
    /\ UNCHANGED << debtVars, profVars >>
    /\ ppc = "simulate"
    /\ month = NMonths(years)
    /\ n_simulations = 0
    /\ projection' = NanSummary(years, target)
    /\ ppc' = "done"
    /\ UNCHANGED << current_balance, monthly_contribution, years, risk, target,
                    n_simulations, month, all_paths, yearly_values >>

\* ... or raises IndexError in np.percentile, depending on its version
SummarizeEmptyError ==
    /\ UNCHANGED << debtVars, profVars >>
    /\ ppc = "simulate"
    /\ month = NMonths(years)
    /\ n_simulations = 0
    /\ ppc' = "error"
    /\ UNCHANGED << current_balance, monthly_contribution, years, risk, target,
                    n_simulations, month, all_paths, yearly_values, projection >>

ProjNext ==
    \/ StartKeyError
    \/ StartBadShape
    \/ Start
    \/ SimulateMonth
    \/ Summarize
    \/ SummarizeEmptyNan
    \/ SummarizeEmptyError

ProjSpec == ProjInit /\ [][ProjNext]_vars

\* ----------------------------------- project_profile, portfolio and goals
MaxGoals == 2          \* longest goal list drawn in ProfInit

reference_year == 2026 \* simulator.py:198
max_goal_years == 40   \* simulator.py:202
default_years == 30    \* simulator.py:178

Account(b, c) == [balance |-> b, monthly_contribution |-> c]

AccountLists ==
    { << >>,
      << Account(Dollars(1000), Dollars(100)) >>,
      << Account(Dollars(1000), Dollars(100)), Account(Dollars(500), Dollars(50)) >> }

Goal(amount, year, savings) ==
    [target_amount |-> amount, target_year |-> year, current_savings |-> savings]

\* target_year is an int in 2025..2080 (models.py:65)
GoalChoices ==
    { Goal(Dollars(10000), y, Dollars(100)) :
          y \in { 2025, 2026, 2027, 2066, 2067, 2080 } }

GoalLists == SeqsUpTo(GoalChoices, MaxGoals)

\* models.py:107-109
TotalInvestments(accs) == SumSeq([i \in DOMAIN accs |-> accs[i].balance])

\* line 181
MonthlyContributions(accs) ==
    SumSeq([i \in DOMAIN accs |-> accs[i].monthly_contribution])

\* line 183
InvestableSurplus(sur, contributions) ==
    IF sur > contributions THEN Max(0, sur - contributions) ELSE 0

\* line 188
PortfolioContribution(sur, contributions) ==
    contributions + MulDivRound(InvestableSurplus(sur, contributions), 1, 2)

\* line 192, in basis points
ContributionGrowth(rate) == Min(rate * 100, 500)

\* the horizon without its floor of one year
GoalHorizon_NoFloor(target_year) ==
    Min(target_year - reference_year, max_goal_years)

\* lines 198 and 202
GoalHorizon(target_year) ==
    Min(Max(1, target_year - reference_year), max_goal_years)

\* line 201
GoalContribution(contributions, n_goals) ==
    MulDivRound(contributions, 1, Max(n_goals, 1))

\* the arguments of one call of project_profile (line 178), taken from the
\* profile
ProfInit ==
    /\ DebtIdle
    /\ ProjIdle
    /\ accounts \in AccountLists
    /\ goals \in GoalLists
    /\ surplus \in { Dollars(0 - 500), Dollars(100), Dollars(500) }
    /\ income_growth_rate \in { 3, 10 }
    /\ goal_idx = 1
    /\ portfolio_call = None
    /\ goal_calls = << >>
    /\ qpc = "portfolio"

\* lines 180-193: the portfolio call; run_projection itself is ProjSpec, here
\* the call is the arguments it is given
PortfolioCall ==
    /\ UNCHANGED << debtVars, projVars >>
    /\ qpc = "portfolio"
    /\ portfolio_call' =
          [current_balance |-> TotalInvestments(accounts),
           monthly_contribution |->
               PortfolioContribution(surplus, MonthlyContributions(accounts)),
           years |-> default_years,
           contribution_growth |-> ContributionGrowth(income_growth_rate)]
    /\ goal_idx' = 1
    /\ qpc' = "goals"
    /\ UNCHANGED << accounts, goals, surplus, income_growth_rate, goal_calls >>

\* lines 197-212, one goal
GoalCall ==
    /\ UNCHANGED << debtVars, projVars >>
    /\ qpc = "goals"
    /\ goal_idx <= Len(goals)
    /\ goal_calls' = Append(goal_calls,
          [current_balance |-> goals[goal_idx].current_savings,
           monthly_contribution |->
               GoalContribution(MonthlyContributions(accounts), Len(goals)),
           years |-> GoalHorizon(goals[goal_idx].target_year),
           target |-> goals[goal_idx].target_amount])
    /\ goal_idx' = goal_idx + 1
    /\ UNCHANGED << accounts, goals, surplus, income_growth_rate,
                    portfolio_call, qpc >>

\* line 197 exhausted: on to the debt part (lines 214-230, Spec)
GoalsDone ==
    /\ UNCHANGED << debtVars, projVars >>
    /\ qpc = "goals"
    /\ goal_idx > Len(goals)
    /\ qpc' = "debts"
    /\ UNCHANGED << accounts, goals, surplus, income_growth_rate, goal_idx,
                    portfolio_call, goal_calls >>

ProfNext ==
    \/ PortfolioCall
    \/ GoalCall
    \/ GoalsDone

ProfSpec == ProfInit /\ [][ProfNext]_vars

\* ================================================================== claims
InLoop == pc \in {"while", "interest", "minimums", "extra", "record"}

Returned == pc = "return" /\ result # None

\* C1 (as stated): for a nonempty debt list and extra_monthly > 0 the avalanche
\* total_interest is at most the snowball total_interest, so
\* savings_vs_snowball is never negative.
C1_AvalancheNeverCostlier ==
    \A k \in DOMAIN payoffs :
        (debt_data # << >> /\ payoffs[k].extra_monthly > 0) =>
            /\ payoffs[k].avalanche.total_interest
                   <= payoffs[k].snowball.total_interest
            /\ payoffs[k].savings_vs_snowball >= 0

\* C1 (amended): for a single debt and extra_monthly > 0 both strategies
\* return the same total_interest, so the avalanche interest is at most the
\* snowball interest and savings_vs_snowball is 0, never negative.
C1_SingleDebtNeverCostlier ==
    \A k \in DOMAIN payoffs :
        (Len(debt_data) = 1 /\ payoffs[k].extra_monthly > 0) =>
            /\ payoffs[k].avalanche.total_interest
                   <= payoffs[k].snowball.total_interest
            /\ payoffs[k].avalanche.total_interest
                   = payoffs[k].snowball.total_interest
            /\ payoffs[k].savings_vs_snowball = 0

C1_Witness ==
    \E k \in DOMAIN payoffs :
        /\ Len(debt_data) = 1
        /\ payoffs[k].extra_monthly > 0
        /\ payoffs[k].snowball.total_interest > 0
        /\ payoffs[k].snowball.months_to_free > 1

\* C2 (as stated): months_to_free of every returned result is the maximum of
\* months_to_payoff over its per-debt entries, and 0 when there are no debts.
MaxMonthsToPayoff(ds) ==
    IF ds = << >> THEN 0
    ELSE CHOOSE m \in { ds[i].months_to_payoff : i \in DOMAIN ds } :
            \A i \in DOMAIN ds : ds[i].months_to_payoff <= m

C2_MonthsToFreeIsMax ==
    Returned => result.months_to_free = MaxMonthsToPayoff(result.debts)

\* C3 (as stated): with the debts and the strategy fixed, a larger
\* extra_monthly never gives a larger months_to_free nor a larger
\* total_interest, for avalanche and for snowball.
C3_ExtraNeverHurts ==
    \A j, k \in DOMAIN payoffs :
        payoffs[j].extra_monthly <= payoffs[k].extra_monthly =>
            /\ payoffs[k].avalanche.months_to_free
                   <= payoffs[j].avalanche.months_to_free
            /\ payoffs[k].avalanche.total_interest
                   <= payoffs[j].avalanche.total_interest
            /\ payoffs[k].snowball.months_to_free
                   <= payoffs[j].snowball.months_to_free
            /\ payoffs[k].snowball.total_interest
                   <= payoffs[j].snowball.total_interest

\* C3 (amended): with the debts and the strategy fixed, a larger
\* extra_monthly never gives a larger months_to_free (avalanche and snowball)
\* and, for avalanche, never a larger total_interest.
C3_ExtraNeverHurtsAvalanche ==
    \A j, k \in DOMAIN payoffs :
        payoffs[j].extra_monthly <= payoffs[k].extra_monthly =>
            /\ payoffs[k].avalanche.months_to_free
                   <= payoffs[j].avalanche.months_to_free
            /\ payoffs[k].avalanche.total_interest
                   <= payoffs[j].avalanche.total_interest
            /\ payoffs[k].snowball.months_to_free
                   <= payoffs[j].snowball.months_to_free

C3_Witness ==
    \E j, k \in DOMAIN payoffs :
        /\ Len(debt_data) > 1
        /\ payoffs[j].extra_monthly < payoffs[k].extra_monthly
        /\ payoffs[k].avalanche.total_interest
               < payoffs[j].avalanche.total_interest
        /\ payoffs[k].snowball.months_to_free
               < payoffs[j].snowball.months_to_free

\* C4: the payoff loop terminates: never more than 600 iterations, it leaves
\* the loop as soon as every balance is <= 0.01, and with a debt that is never
\* paid off it stops after exactly 600 months and returns a result with
\* months_to_free = 600; every call returns.
C4_LoopTerminates ==
    /\ [](months <= max_months)
    /\ [][(pc = "while" /\ ~AnyOwing(active)) => pc' = "return"]_vars
    /\ []((Returned /\ debt_data # << >> /\ AnyOwing(active)) =>
              (months = 600 /\ result.months_to_free = 600))
    /\ [](pc = "entry" => <>(pc = "return"))

C4_Witness ==
    /\ Returned
    /\ debt_data # << >>
    /\ AnyOwing(active)
    /\ result.months_to_free = 600

\* C6: with an empty debt list the call returns, for either strategy and any
\* extra_monthly, the given strategy with no per-debt entry and
\* total_interest = months_to_free = total_paid = 0, and never enters the
\* monthly loop.
C6_EmptyDebts ==
    debt_data = << >> =>
        /\ ~InLoop
        /\ months = 0
        /\ pc = "return" =>
              /\ result.strategy = strategy
              /\ result.debts = << >>
              /\ result.total_interest = 0
              /\ result.months_to_free = 0
              /\ result.total_paid = 0

C6_Witness ==
    /\ debt_data = << >>
    /\ pc = "return"
    /\ strategy = "snowball"
    /\ extra_monthly > 0
    /\ result.strategy = "snowball"

\* C9: the single debt balance 1000, rate 20, min_payment 50 with
\* extra_monthly 0 and avalanche is free after as many months as the
\* fixed-payment schedule B_k = B_(k-1) * (1 + 0.20/12) - min(50, that
\* balance) takes to reach zero, which is 25.
RECURSIVE ScheduleLength(_, _)
ScheduleLength(B, n) ==
    IF B <= 0 THEN n
    ELSE LET grown == B + MulDivRound(B, 20, 1200)
         IN  ScheduleLength(grown - Min(Dollars(50), grown), n + 1)

C9_Case ==
    /\ debt_data = << Debt(Dollars(1000), 20, Dollars(50)) >>
    /\ strategy = "avalanche"
    /\ extra_monthly = 0

C9_AmortizationSchedule ==
    (C9_Case /\ Returned) =>
        /\ result.months_to_free = ScheduleLength(Dollars(1000), 0)
        /\ result.months_to_free = 25

C9_Witness == C9_Case /\ Returned /\ result.total_interest > 0

\* C10: with non-negative inputs every balance is >= 0 after every step of
\* every month, and total_interest, total_paid and every interest_paid, running
\* and returned, are >= 0.
C10_NothingNegative ==
    /\ \A i \in DOMAIN active :
          active[i].balance >= 0 /\ active[i].interest_paid >= 0
    /\ total_interest >= 0
    /\ total_paid >= 0
    /\ remaining_extra >= 0
    /\ Returned =>
          /\ result.total_interest >= 0
          /\ result.total_paid >= 0
          /\ \A i \in DOMAIN result.debts : result.debts[i].interest_paid >= 0

\* a month in which a minimum was capped at the balance and the extra was
\* capped at what was left of another debt
C10_Witness ==
    /\ pc = "record"
    /\ extra_monthly > 0
    /\ remaining_extra > 0
    /\ \E i \in DOMAIN active :
          /\ active[i].balance = 0
          /\ active[i].original_balance > active[i].min_payment
    /\ total_paid > 0

\* C5 (as stated): run_projection called with a negative current balance, a
\* simulation count <= 0 or a risk category missing from RETURN_PROFILES
\* fails before any simulation step and never returns a ProjectionResult.
InvalidInput ==
    \/ current_balance < 0
    \/ n_simulations <= 0
    \/ risk \notin DOMAIN RETURN_PROFILES

C5_InvalidInputFailsFast ==
    (ppc # "idle" /\ InvalidInput) =>
        /\ month = 0
        /\ ppc \in {"start", "error"}
        /\ projection = None

\* C7: for years >= 0, a simulation count >= 1 and any draws, the returned
\* percentile sequences have years + 1 entries and satisfy
\* p10[i] <= p25[i] <= median[i] <= p75[i] <= p90[i] at every year index.
C7_PercentilesOrdered ==
    (ppc = "done" /\ n_simulations >= 1) =>
        /\ Len(projection.median) = years + 1
        /\ \A i \in 1..(years + 1) :
              /\ projection.p10[i] <= projection.p25[i]
              /\ projection.p25[i] <= projection.median[i]
              /\ projection.median[i] <= projection.p75[i]
              /\ projection.p75[i] <= projection.p90[i]

C7_Witness ==
    /\ ppc = "done"
    /\ n_simulations = MaxSims
    /\ years = 1
    /\ projection.p10[2] < projection.p25[2]
    /\ projection.p25[2] < projection.median[2]
    /\ projection.median[2] < projection.p90[2]

\* C8: with years = 0 and a simulation count >= 1 the result is the single
\* point years = [0] whose median, p10, p25, p75, p90 and median_final all
\* equal the starting balance; success_rate is 100 with no target
\* (target <= 0), else 100 when the starting balance >= target and 0 when it
\* is below.
C8_ZeroYears ==
    (ppc = "done" /\ years = 0 /\ n_simulations >= 1) =>
        /\ projection.years = << 0 >>
        /\ \A seq \in { projection.median, projection.p10, projection.p25,
                        projection.p75, projection.p90 } :
              Len(seq) = 1 /\ seq[1] * Cent = current_balance
        /\ projection.median_final * Cent = current_balance
        /\ projection.success_rate =
              IF target <= 0 THEN 1000
              ELSE IF current_balance >= target THEN 1000 ELSE 0

C8_Witness ==
    /\ ppc = "done"
    /\ years = 0
    /\ n_simulations > 1
    /\ target > 0
    /\ current_balance = target
    /\ projection.success_rate = 1000
    /\ projection.median = << 1024 >>

\* C11: every month the extra is handed out in the strategy's priority order
\* (avalanche: descending rate; snowball: ascending balance after interest,
\* zero balances last): a debt gets part of the extra only if every debt
\* ahead of it in that order has balance 0 after the month's payments, each
\* extra payment is at most what the debt owes after its minimum, and the
\* extra paid in the month is at most extra_monthly.
IsPermutation(ord, n) ==
    /\ Len(ord) = n
    /\ \A i \in 1..n : \E p \in 1..n : ord[p] = i

\* ord is the strategy's priority order on the balances after interest
InPriorityOrder(strat, act, ord) ==
    /\ IsPermutation(ord, Len(act))
    /\ \A p, q \in 1..Len(ord) :
          p < q =>
              IF strat = "avalanche"
              THEN act[ord[p]].rate >= act[ord[q]].rate
              ELSE act[ord[q]].balance > 0 =>
                      /\ act[ord[p]].balance > 0
                      /\ act[ord[p]].balance <= act[ord[q]].balance

ExtraPaid(i) == active[i].balance - active'[i].balance

C11_ExtraInPriorityOrder ==
    /\ [][pc = "minimums" => InPriorityOrder(strategy, active, order')]_vars
    /\ [][pc = "extra" =>
            /\ \A i \in DOMAIN active :
                  /\ ExtraPaid(i) >= 0
                  /\ ExtraPaid(i) <= active[i].balance
            /\ \A p, q \in 1..Len(order) :
                  (p < q /\ ExtraPaid(order[q]) > 0) =>
                      active'[order[p]].balance = 0
            /\ SumSeq([i \in DOMAIN active |-> ExtraPaid(i)]) <= extra_monthly
            /\ SumSeq([i \in DOMAIN active |-> ExtraPaid(i)])
                   = remaining_extra - remaining_extra'
         ]_vars

\* the extra was used up in a month in which the first debt of the order was
\* cleared and a later one, of lower priority, still owes
C11_Witness ==
    /\ pc = "record"
    /\ Len(active) > 1
    /\ extra_monthly > 0
    /\ remaining_extra = 0
    /\ active[order[1]].balance = 0
    /\ active[order[1]].months = months - 1
    /\ active[order[2]].balance > 0
    /\ active[order[1]].rate # active[order[2]].rate

\* C12: simulate_debt_payoff leaves the caller's debt list and its records as
\* they were: every step keeps debt_data, so the avalanche call and the
\* snowball call of project_profile both start from the original balances
\* and report them, whichever call ran before.
StartsFromOriginal ==
    /\ Len(active) = Len(debt_data)
    /\ \A i \in DOMAIN active :
          /\ active[i].balance = debt_data[i].balance
          /\ active[i].original_balance = debt_data[i].balance
          /\ active[i].rate = debt_data[i].rate
          /\ active[i].min_payment = debt_data[i].min_payment

Clamp1To40(x) == IF x < 1 THEN 1 ELSE IF x > 40 THEN 40 ELSE x

Abs(x) == IF x < 0 THEN 0 - x ELSE x

C13_GoalHorizonAndShare ==
    \A k \in DOMAIN goal_calls :
        /\ goal_calls[k].years >= 1
        /\ goal_calls[k].years <= 40
        /\ goal_calls[k].years = Clamp1To40(goals[k].target_year - 2026)
        /\ 2 * Abs(goal_calls[k].monthly_contribution * Len(goals)
                       - MonthlyContributions(accounts)) <= Len(goals)

C13_Witness ==
    /\ qpc = "debts"
    /\ Len(goal_calls) = 2
    /\ goals[1].target_year = 2025
    /\ goal_calls[1].years = 1
    /\ goals[2].target_year = 2080
    /\ goal_calls[2].years = 40
    /\ goal_calls[2].monthly_contribution = Dollars(75)

\* C14: money is conserved in simulate_debt_payoff: at every point of the
\* loop and in the unrounded final state, total_paid plus the remaining
\* balances equals the original balances plus total_interest, and
\* total_interest equals the sum of the debts' interest_paid; so when every
\* debt is paid off, total_paid differs from the original balances plus
\* total_interest by at most 0.01 per debt.
SumBalances(act) == SumSeq([i \in DOMAIN act |-> act[i].balance])

SumOriginal(act) == SumSeq([i \in DOMAIN act |-> act[i].original_balance])

SumInterestPaid(act) == SumSeq([i \in DOMAIN act |-> act[i].interest_paid])

C14_MoneyConserved ==
    (InLoop \/ Returned) =>
        /\ total_paid + SumBalances(active)
               = SumOriginal(active) + total_interest
        /\ total_interest = SumInterestPaid(active)
        /\ (Returned /\ ~AnyOwing(active)) =>
               /\ Abs(SumOriginal(active) + total_interest - total_paid)
                      <= Epsilon * Len(active)
               /\ Abs(SumSeq([i \in DOMAIN result.debts |->
                              result.debts[i].original_balance])
                          + result.total_interest - result.total_paid)
                      <= Len(active)

C14_Witness ==
    /\ Returned
    /\ Len(active) = 2
    /\ ~AnyOwing(active)
    /\ total_interest > 0
    /\ total_paid = SumOriginal(active) + total_interest
    /\ \A i \in DOMAIN active : active[i].interest_paid > 0

\* C15: a paid-off debt stays paid off: while a call runs, a debt whose
\* balance is 0 keeps its whole record (balance 0, no further interest, no
\* further payment, the same recorded months) at every later step, and a debt
\* whose input balance is 0 ends with interest_paid = 0 and
\* months_to_payoff = 0.
C15_PaidOffStaysPaidOff ==
    /\ [][InLoop =>
              \A i \in DOMAIN active :
                  active[i].balance = 0 =>
                      active'[i] = active[i]]_vars
    /\ [](Returned =>
              \A i \in DOMAIN result.debts :
                  debt_data[i].balance = 0 =>
                      /\ result.debts[i].interest_paid = 0
                      /\ result.debts[i].months_to_payoff = 0)

C15_Witness ==
    /\ pc = "while"
    /\ \E i, j \in DOMAIN active :
          /\ active[i].balance = 0
          /\ active[i].original_balance > 0
          /\ active[i].interest_paid > 0
          /\ active[i].months + 2 <= months
          /\ active[j].balance > Epsilon

\* C16: with extra_monthly = 0, which project_profile passes whenever the
\* surplus is not above 0, the strategy has no effect: avalanche and snowball
\* return the same per-debt entries, total_interest, months_to_free and
\* total_paid on the same debts, and savings_vs_snowball is 0.
C16_NoExtraNoDifference ==
    \A k \in DOMAIN payoffs :
        /\ Surpluses[k] <= 0 => payoffs[k].extra_monthly = 0
        /\ payoffs[k].extra_monthly = 0 =>
              /\ payoffs[k].avalanche.debts = payoffs[k].snowball.debts
              /\ payoffs[k].avalanche.total_interest
                     = payoffs[k].snowball.total_interest
              /\ payoffs[k].avalanche.months_to_free
                     = payoffs[k].snowball.months_to_free
              /\ payoffs[k].avalanche.total_paid
                     = payoffs[k].snowball.total_paid
              /\ payoffs[k].savings_vs_snowball = 0

C16_Witness ==
    /\ Len(payoffs) >= 1
    /\ Surpluses[1] < 0
    /\ payoffs[1].extra_monthly = 0
    /\ Len(debt_data) = 2
    /\ debt_data[1].rate < debt_data[2].rate
    /\ debt_data[1].balance < debt_data[2].balance
    /\ payoffs[1].avalanche.total_interest > 0
    /\ payoffs[1].avalanche.strategy = "avalanche"
    /\ payoffs[1].snowball.strategy = "snowball"

====
